---- MODULE Spec2Model ----
(***************************************************************************)
(* A model of the bencode decoder of src/src/lib.rs.                       *)
(*                                                                         *)
(* The decoder is a set of pure functions over a byte slice.  A byte is a  *)
(* number in 0..255 and a slice is a sequence of bytes.  Slice indices are *)
(* kept 0-based and half-open, as in the source, so that the comparisons   *)
(* of the source (e_idx <= 1, colom_idx == stream.len() - 1) are modelled  *)
(* literally.                                                              *)
(*                                                                         *)
(* The state machine draws an input slice (Init) and applies one of the    *)
(* six functions to it (one action per function).                          *)
(***************************************************************************)
EXTENDS Integers, Sequences, FiniteSets

VARIABLES gen, stream, pc, fn, result

vars == <<gen, stream, pc, fn, result>>

(***************************************************************************)
(* Bytes the source names.                                                 *)
(***************************************************************************)
ch_i == 105
ch_e == 101
ch_l == 108
ch_d == 100
ch_colon == 58
ch_0 == 48
ch_9 == 57
\* the sign bytes i32::from_str accepts
ch_minus == 45
ch_plus == 43
\* bytes that only occur as data in the inputs
ch_a == 97
ch_b == 98
\* first byte value that is not ASCII (ascii::AsciiStr::from_ascii)
AsciiLimit == 128
ch_hi == AsciiLimit
\* i32::MAX; i32::MIN is -I32Max - 1
I32Max == 2147483647
I32Min == -I32Max - 1

(***************************************************************************)
(* Bounds of the model.                                                    *)
(***************************************************************************)
MaxRawLen == 4
MaxStrLen == 2
MaxToks == 2
MaxPairs == 2

(***************************************************************************)
(* Slices.                                                                 *)
(***************************************************************************)
\* &s[a..b], for 0 <= a <= b <= Len(s)
Slice(s, a, b) == [k \in 1..(b - a) |-> s[a + k]]

\* s.iter().position(|x| *x == b): the 0-based index of the first b, -1 for None
Position(s, b) ==
  IF \E k \in 1..Len(s) : s[k] = b
  THEN (CHOOSE k \in 1..Len(s) : s[k] = b /\ \A j \in 1..(k - 1) : s[j] # b) - 1
  ELSE -1

\* ascii::AsciiStr::from_ascii(s).is_ok()
IsAscii(s) == \A k \in 1..Len(s) : s[k] < AsciiLimit

IsDigit(b) == b >= ch_0 /\ b <= ch_9

Max2(a, b) == IF a >= b THEN a ELSE b

(***************************************************************************)
(* str::parse::<i32>(): an optional '+' or '-', then one or more decimal   *)
(* digits, accumulated with checked_mul(10) and checked_add / checked_sub. *)
(* The overflow tests are written so that no intermediate value leaves the *)
(* 32-bit range.                                                           *)
(***************************************************************************)
RECURSIVE AccDigits(_, _, _, _)
AccDigits(s, k, acc, neg) ==
  IF k > Len(s) THEN [ok |-> TRUE, val |-> acc]
  ELSE IF ~IsDigit(s[k]) THEN [ok |-> FALSE, val |-> 0]
  ELSE LET d == s[k] - ch_0 IN
    IF neg
    THEN IF acc < -(I32Max \div 10) THEN [ok |-> FALSE, val |-> 0]
         ELSE IF acc * 10 < I32Min + d THEN [ok |-> FALSE, val |-> 0]
         ELSE AccDigits(s, k + 1, acc * 10 - d, neg)
    ELSE IF acc > I32Max \div 10 THEN [ok |-> FALSE, val |-> 0]
         ELSE IF acc * 10 > I32Max - d THEN [ok |-> FALSE, val |-> 0]
         ELSE AccDigits(s, k + 1, acc * 10 + d, neg)

ParseI32(s) ==
  IF Len(s) = 0 THEN [ok |-> FALSE, val |-> 0]
  ELSE IF s[1] = ch_minus \/ s[1] = ch_plus
       THEN IF Len(s) = 1 THEN [ok |-> FALSE, val |-> 0]
            ELSE AccDigits(s, 2, 0, s[1] = ch_minus)
       ELSE AccDigits(s, 1, 0, FALSE)

(***************************************************************************)
(* BencodeType.  Every value carries all four payload fields so that two   *)
(* values can always be compared; the fields other than the tagged one are *)
(* empty.  A Dictionary is held as the BTreeMap holds it: its entries in   *)
(* ascending key order, one per key.                                       *)
(***************************************************************************)
NoValue == [tag |-> "None", int |-> 0, str |-> <<>>, list |-> <<>>, dict |-> <<>>]
Integer(n) == [tag |-> "Integer", int |-> n, str |-> <<>>, list |-> <<>>, dict |-> <<>>]
String(s) == [tag |-> "String", int |-> 0, str |-> s, list |-> <<>>, dict |-> <<>>]
List(vs) == [tag |-> "List", int |-> 0, str |-> <<>>, list |-> vs, dict |-> <<>>]
Dictionary(m) == [tag |-> "Dictionary", int |-> 0, str |-> <<>>, list |-> <<>>, dict |-> m]

\* Ord for str: bytewise lexicographic
RECURSIVE StrLess(_, _)
StrLess(a, b) ==
  IF Len(b) = 0 THEN FALSE
  ELSE IF Len(a) = 0 THEN TRUE
  ELSE IF a[1] # b[1] THEN a[1] < b[1]
  ELSE StrLess(Tail(a), Tail(b))

\* a mutant of MapInsert: an occupied key keeps its first value
MapInsertKeepFirst(m, k, v) ==
  IF \E j \in 1..Len(m) : m[j].key = k THEN m
  ELSE LET below == Cardinality({j \in 1..Len(m) : StrLess(m[j].key, k)}) IN
         SubSeq(m, 1, below) \o <<[key |-> k, val |-> v]>> \o SubSeq(m, below + 1, Len(m))

\* BTreeMap::insert: replaces the value of an occupied key, else adds the
\* entry at its place in key order
MapInsert(m, k, v) ==
  IF \E j \in 1..Len(m) : m[j].key = k
  THEN [j \in 1..Len(m) |-> IF m[j].key = k THEN [key |-> k, val |-> v] ELSE m[j]]
  ELSE LET below == Cardinality({j \in 1..Len(m) : StrLess(m[j].key, k)}) IN
         SubSeq(m, 1, below) \o <<[key |-> k, val |-> v]>> \o SubSeq(m, below + 1, Len(m))

(***************************************************************************)
(* Result<ParseResult, ConvertError>.  kind is "Ok", "Err" or "Panic" (the *)
(* call unwinds instead of returning).  depth is a history field: the      *)
(* deepest nesting of recursive next_rule calls made below this call.      *)
(***************************************************************************)
Ok(v, rest, dp) == [kind |-> "Ok", err |-> "None", value |-> v, next |-> rest, depth |-> dp]
Err(e, dp) == [kind |-> "Err", err |-> e, value |-> NoValue, next |-> <<>>, depth |-> dp]
Panic(dp) == [kind |-> "Panic", err |-> "None", value |-> NoValue, next |-> <<>>, depth |-> dp]
NoResult == [kind |-> "None", err |-> "None", value |-> NoValue, next |-> <<>>, depth |-> 0]

\* the ? operator and unwinding: a failed callee's outcome, one level up
Propagate(r, dp) == [r EXCEPT !.depth = dp]

(***************************************************************************)
(* The token parsers.                                                      *)
(***************************************************************************)
\* a mutant of parse_int: the remainder starts at the terminator
parse_int_KeepsTerminator(s) ==
  LET i_idx == Position(s, ch_i)
      e_idx == Position(s, ch_e)
      payload == Slice(s, 1, e_idx)
      val == ParseI32(payload)
  IN IF i_idx = -1 THEN Err("InvalidFormat", 0)
     ELSE IF i_idx # 0 THEN Err("BufferTooShort", 0)
     ELSE IF e_idx = -1 THEN Err("InvalidFormat", 0)
     ELSE IF e_idx <= 1 THEN Err("BufferTooShort", 0)
     ELSE IF ~IsAscii(payload) THEN Err("InvalidEncoding", 0)
     ELSE IF ~val.ok THEN Err("PayloadTooBig", 0)
     ELSE Ok(Integer(val.val), Slice(s, e_idx, Len(s)), 0)

parse_int(s) ==
  LET i_idx == Position(s, ch_i)
      e_idx == Position(s, ch_e)
      payload == Slice(s, 1, e_idx)
      val == ParseI32(payload)
  IN IF i_idx = -1 THEN Err("InvalidFormat", 0)
     ELSE IF i_idx # 0 THEN Err("BufferTooShort", 0)
     ELSE IF e_idx = -1 THEN Err("InvalidFormat", 0)
     ELSE IF e_idx <= 1 THEN Err("BufferTooShort", 0)
     ELSE IF ~IsAscii(payload) THEN Err("InvalidEncoding", 0)
     ELSE IF ~val.ok THEN Err("PayloadTooBig", 0)
     ELSE Ok(Integer(val.val), Slice(s, e_idx + 1, Len(s)), 0)

\* a mutant of parse_str: the payload is handed back as the remainder
parse_str_RestIsPayload(s) ==
  LET colom_idx == Position(s, ch_colon)
      size_slice == Slice(s, 0, colom_idx)
      size == ParseI32(size_slice)
      payload_slice == Slice(s, colom_idx + 1, colom_idx + 1 + size.val)
  IN IF colom_idx = -1 THEN Err("InvalidFormat", 0)
     ELSE IF colom_idx = 0 \/ colom_idx = Len(s) - 1 THEN Err("InvalidFormat", 0)
     ELSE IF ~IsAscii(size_slice) THEN Err("InvalidEncoding", 0)
     ELSE IF ~size.ok THEN Err("PayloadTooBig", 0)
     ELSE IF size.val < 0 THEN Panic(0)
     ELSE IF size.val > Len(s) - (colom_idx + 1) THEN Panic(0)
     ELSE IF ~IsAscii(payload_slice) THEN Err("BufferTooShort", 0)
     ELSE Ok(String(payload_slice), payload_slice, 0)

\* A negative size becomes, by `as usize`, a number of at least 2^63 (2^31 on
\* a 32-bit target): colom_idx + 1 + size then overflows (a panic where
\* overflow is checked) or wraps to an end below the start or beyond the
\* slice (a panic of the slice index).  Every build panics.  A size beyond
\* the bytes left is a panic of the slice index.
parse_str(s) ==
  LET colom_idx == Position(s, ch_colon)
      size_slice == Slice(s, 0, colom_idx)
      size == ParseI32(size_slice)
      payload_slice == Slice(s, colom_idx + 1, colom_idx + 1 + size.val)
  IN IF colom_idx = -1 THEN Err("InvalidFormat", 0)
     ELSE IF colom_idx = 0 \/ colom_idx = Len(s) - 1 THEN Err("InvalidFormat", 0)
     ELSE IF ~IsAscii(size_slice) THEN Err("InvalidEncoding", 0)
     ELSE IF ~size.ok THEN Err("PayloadTooBig", 0)
     ELSE IF size.val < 0 THEN Panic(0)
     ELSE IF size.val > Len(s) - (colom_idx + 1) THEN Panic(0)
     ELSE IF ~IsAscii(payload_slice) THEN Err("BufferTooShort", 0)
     ELSE Ok(String(payload_slice), Slice(s, colom_idx + 1 + size.val, Len(s)), 0)

RECURSIVE next_rule(_)
RECURSIVE ListLoop(_, _, _)
RECURSIVE DictLoop(_, _, _)

\* a mutant of ListLoop: each entry is put in front of the collected ones
ListLoopPrepend(s, res, dp) ==
  IF Len(s) # 0 /\ s[1] # ch_e
  THEN LET entry == next_rule(s)
           nd == Max2(dp, entry.depth + 1)
       IN IF entry.kind # "Ok" THEN Propagate(entry, nd)
          ELSE ListLoop(entry.next, <<entry.value>> \o res, nd)
  ELSE Ok(List(res), s, dp)

\* the while loop of parse_list: Ok carries the collected entries and the
\* slice the loop stopped at
ListLoop(s, res, dp) ==
  IF Len(s) # 0 /\ s[1] # ch_e
  THEN LET entry == next_rule(s)
           nd == Max2(dp, entry.depth + 1)
       IN IF entry.kind # "Ok" THEN Propagate(entry, nd)
          ELSE ListLoop(entry.next, Append(res, entry.value), nd)
  ELSE Ok(List(res), s, dp)

parse_list(s) ==
  LET i_idx == Position(s, ch_l)
      lp == ListLoop(Tail(s), <<>>, 0)
  IN IF i_idx = -1 THEN Err("InvalidFormat", 0)
     ELSE IF i_idx # 0 THEN Err("BufferTooShort", 0)
     ELSE IF lp.kind # "Ok" THEN lp
     ELSE IF Len(lp.next) = 0 \/ lp.next[1] # ch_e THEN Err("InvalidFormat", lp.depth)
     ELSE Ok(lp.value, Tail(lp.next), lp.depth)

\* the while loop of parse_dict: the value token is decoded before the key's
\* variant is looked at
DictLoop(s, res, dp) ==
  IF Len(s) # 0 /\ s[1] # ch_e
  THEN LET key == next_rule(s)
           kd == Max2(dp, key.depth + 1)
       IN IF key.kind # "Ok" THEN Propagate(key, kd)
          ELSE LET entry == next_rule(key.next)
                   nd == Max2(kd, entry.depth + 1)
               IN IF entry.kind # "Ok" THEN Propagate(entry, nd)
                  ELSE IF key.value.tag = "String"
                       THEN DictLoop(entry.next, MapInsert(res, key.value.str, entry.value), nd)
                       ELSE Err("InvalidFormat", nd)
  ELSE Ok(Dictionary(res), s, dp)

parse_dict(s) ==
  LET i_idx == Position(s, ch_d)
      lp == DictLoop(Tail(s), <<>>, 0)
  IN IF i_idx = -1 THEN Err("InvalidFormat", 0)
     ELSE IF i_idx # 0 THEN Err("BufferTooShort", 0)
     ELSE IF lp.kind # "Ok" THEN lp
     ELSE IF Len(lp.next) = 0 \/ lp.next[1] # ch_e THEN Err("InvalidFormat", lp.depth)
     ELSE Ok(lp.value, Tail(lp.next), lp.depth)

\* one byte of lookahead
next_rule(s) ==
  IF Len(s) = 0 THEN Err("EOF", 0)
  ELSE IF IsDigit(s[1]) THEN parse_str(s)
  ELSE IF s[1] = ch_i THEN parse_int(s)
  ELSE IF s[1] = ch_l THEN parse_list(s)
  ELSE IF s[1] = ch_d THEN parse_dict(s)
  ELSE Err("InvalidFormat", 0)

\* a mutant of parse: the remainder is not looked at
parse_IgnoresRest(s) ==
  LET res == next_rule(s)
  IN IF res.kind # "Ok" THEN res
     ELSE Ok(res.value, <<>>, res.depth)

\* parse returns the value alone: the record's next is empty
parse(s) ==
  LET res == next_rule(s)
  IN IF res.kind # "Ok" THEN res
     ELSE IF Len(res.next) = 0 THEN Ok(res.value, <<>>, res.depth)
     ELSE Err("EOF", res.depth)

(***************************************************************************)
(* The inputs.  A test of the source writes its input as a literal; here   *)
(* an input is built from a description (gen) of one of six shapes, so     *)
(* that a property can name the parts of the input it is about.            *)
(***************************************************************************)
SeqsUpTo(S, n) == UNION {[1..k -> S] : k \in 0..n}

\* the decimal digits of m <= 0 without its sign, most significant first
RECURSIVE NegDigits(_)
NegDigits(m) ==
  IF m = 0 THEN <<>>
  ELSE LET d == (10 - (m % 10)) % 10
       IN NegDigits((m + d) \div 10) \o <<ch_0 + d>>

\* the decimal numeral of n, with '-' when negative
ToDecimal(n) ==
  IF n = 0 THEN <<ch_0>>
  ELSE IF n < 0 THEN <<ch_minus>> \o NegDigits(n)
  ELSE NegDigits(-n)

RECURSIVE Encode(_)
RECURSIVE EncodeAll(_)
RECURSIVE EncodePairs(_)

\* the token of a value
Encode(v) ==
  IF v.tag = "Integer" THEN <<ch_i>> \o ToDecimal(v.int) \o <<ch_e>>
  ELSE IF v.tag = "String" THEN ToDecimal(Len(v.str)) \o <<ch_colon>> \o v.str
  ELSE IF v.tag = "List" THEN <<ch_l>> \o EncodeAll(v.list) \o <<ch_e>>
  ELSE <<ch_d>>
       \o EncodePairs([j \in 1..Len(v.dict) |->
                         [key |-> String(v.dict[j].key), val |-> v.dict[j].val]])
       \o <<ch_e>>

EncodeAll(vs) == IF Len(vs) = 0 THEN <<>> ELSE Encode(vs[1]) \o EncodeAll(Tail(vs))

EncodePairs(ps) ==
  IF Len(ps) = 0 THEN <<>>
  ELSE Encode(ps[1].key) \o Encode(ps[1].val) \o EncodePairs(Tail(ps))

IntSamples == {I32Min, I32Min + 1, -10, -1, 0, 7, 10, I32Max - 1, I32Max}

\* numerals that are not the decimal numeral of an i32
NumeralSamples ==
  { <<ch_plus, ch_0 + 5>>, <<ch_minus>>, <<ch_plus>>, <<ch_0, ch_0, ch_0 + 7>>,
    <<ch_minus, ch_0>>, <<ch_0 + 1, ch_a>>, <<ch_minus, ch_minus, ch_0 + 1>>,
    <<ch_0 + 1, ch_hi>>,
    ToDecimal(I32Max \div 10) \o <<ch_0 + 8>>,
    ToDecimal(I32Min \div 10 + 1) \o <<ch_9>> }

Trails == {<<>>, <<ch_e>>, <<ch_0, ch_colon>>}

RawAlphabet ==
  {ch_i, ch_e, ch_l, ch_d, ch_colon, ch_minus, ch_plus, ch_0, ch_0 + 1, ch_a, ch_hi}

PayloadAlphabet == {ch_a, ch_e, ch_colon, ch_hi}

SubVals ==
  { Integer(0), Integer(-7), Integer(I32Max),
    String(<<>>), String(<<ch_a>>), String(<<ch_e, ch_colon>>),
    List(<<>>), List(<<Integer(1), String(<<ch_a>>)>>),
    Dictionary(<<>>), Dictionary(<<[key |-> <<ch_a>>, val |-> Integer(1)]>>) }

KeySamples == {String(<<>>), String(<<ch_a>>), String(<<ch_b>>), Integer(1), List(<<>>)}

DictVals == {Integer(0), Integer(-7), String(<<ch_a>>), List(<<Integer(1)>>)}

Gen(f, n, k, s, t, vs, ps) ==
  [family |-> f, n |-> n, k |-> k, s |-> s, t |-> t, vals |-> vs, pairs |-> ps]

\* the bytes a description stands for
Build(g) ==
  IF g.family = "raw" THEN g.s
  ELSE IF g.family = "int" THEN <<ch_i>> \o ToDecimal(g.n) \o <<ch_e>> \o g.t
  ELSE IF g.family = "num" THEN <<ch_i>> \o g.s \o <<ch_e>> \o g.t
  ELSE IF g.family = "str" THEN ToDecimal(g.k) \o <<ch_colon>> \o g.s \o g.t
  ELSE IF g.family = "list" THEN <<ch_l>> \o EncodeAll(g.vals) \o <<ch_e>> \o g.t
  ELSE <<ch_d>> \o EncodePairs(g.pairs) \o <<ch_e>> \o g.t

(***************************************************************************)
(* The state machine: an input, then one call.                             *)
(***************************************************************************)
\* an input of one of the six shapes, no call made yet
Init ==
  /\ \/ \E s \in SeqsUpTo(RawAlphabet, MaxRawLen) :
          gen = Gen("raw", 0, 0, s, <<>>, <<>>, <<>>)
     \/ \E n \in IntSamples, t \in Trails :
          gen = Gen("int", n, 0, <<>>, t, <<>>, <<>>)
     \/ \E s \in NumeralSamples, t \in Trails :
          gen = Gen("num", 0, 0, s, t, <<>>, <<>>)
     \/ \E k \in 0..(MaxStrLen + 1), s \in SeqsUpTo(PayloadAlphabet, MaxStrLen), t \in Trails :
          gen = Gen("str", 0, k, s, t, <<>>, <<>>)
     \/ \E vs \in SeqsUpTo(SubVals, MaxToks), t \in Trails :
          gen = Gen("list", 0, 0, <<>>, t, vs, <<>>)
     \/ \E ps \in SeqsUpTo([key : KeySamples, val : DictVals], MaxPairs), t \in Trails :
          gen = Gen("dict", 0, 0, <<>>, t, <<>>, ps)
  /\ stream = Build(gen)
  /\ pc = "ready"
  /\ fn = "none"
  /\ result = NoResult

Call(name, r) ==
  /\ pc = "ready"
  /\ pc' = "done"
  /\ fn' = name
  /\ result' = r
  /\ UNCHANGED <<gen, stream>>

CallParse == Call("parse", parse(stream))
CallNextRule == Call("next_rule", next_rule(stream))
CallParseInt == Call("parse_int", parse_int(stream))
CallParseStr == Call("parse_str", parse_str(stream))
CallParseList == Call("parse_list", parse_list(stream))
CallParseDict == Call("parse_dict", parse_dict(stream))

Next ==
  \/ CallParse
  \/ CallNextRule
  \/ CallParseInt
  \/ CallParseStr
  \/ CallParseList
  \/ CallParseDict

Spec == Init /\ [][Next]_vars

(***************************************************************************)
(* Properties.                                                             *)
(***************************************************************************)
Done(name) == pc = "done" /\ fn = name

IsSuffix(r, s) == Len(r) <= Len(s) /\ r = Slice(s, Len(s) - Len(r), Len(s))

IsErr(r, e) == r.kind = "Err" /\ r.err = e

\* the description is of one complete token followed by the trailing bytes t
WellFormed(g) ==
  \/ g.family = "int"
  \/ g.family = "str" /\ g.k = Len(g.s) /\ IsAscii(g.s)
  \/ g.family = "list"
  \/ g.family = "dict" /\ \A j \in 1..Len(g.pairs) : g.pairs[j].key.tag = "String"

\* an optional '-' followed by one or more decimal digits
IsNumeral(s) ==
  LET digits == IF Len(s) > 0 /\ s[1] = ch_minus THEN Tail(s) ELSE s
  IN Len(digits) > 0 /\ \A k \in 1..Len(digits) : IsDigit(digits[k])

\* C1: parse fails with EOF on the empty input and on a complete token
\* followed by further bytes; it succeeds only when the dispatcher leaves an
\* empty remainder, and then returns the dispatcher's value.
ParseConsumesWholeInput ==
  Done("parse") =>
    LET r == next_rule(stream)
    IN /\ Len(stream) = 0 => IsErr(result, "EOF")
       /\ (WellFormed(gen) /\ Len(gen.t) > 0) => IsErr(result, "EOF")
       /\ (r.kind = "Ok" /\ Len(r.next) > 0) => IsErr(result, "EOF")
       /\ (r.kind = "Ok" /\ Len(r.next) = 0) => (result.kind = "Ok" /\ result.value = r.value)
       /\ result.kind = "Ok" => (r.kind = "Ok" /\ Len(r.next) = 0)

ParseTrailingWitness ==
  /\ Done("parse")
  /\ gen.family = "list"
  /\ Len(gen.vals) = 2
  /\ Len(gen.t) > 0
  /\ IsErr(result, "EOF")

\* C2: parse_str on the digits of k, ':', an ASCII s of length k, then t
\* returns String(s) and the remainder t, for k = 0 and for an empty t too.
StrTokenRoundTrip ==
  (Done("parse_str") /\ gen.family = "str" /\ gen.k = Len(gen.s) /\ IsAscii(gen.s)) =>
    (result.kind = "Ok" /\ result.value = String(gen.s) /\ result.next = gen.t)

\* C3: a string token that declares more bytes than follow its colon makes
\* parse_str, next_rule and parse return Err(BufferTooShort).
TruncatedStrIsBufferTooShort ==
  (/\ pc = "done"
   /\ fn \in {"parse_str", "next_rule", "parse"}
   /\ gen.family = "str"
   /\ gen.k > Len(gen.s) + Len(gen.t)) =>
    IsErr(result, "BufferTooShort")

\* C4: parse_int on 'i', the decimal numeral of an i32 n, 'e', then t returns
\* Integer(n) and exactly t as the remainder.
IntTokenRoundTrip ==
  (Done("parse_int") /\ gen.family = "int") =>
    (result.kind = "Ok" /\ result.value = Integer(gen.n) /\ result.next = gen.t)

IntTokenWitness ==
  /\ Done("parse_int")
  /\ gen.family = "int"
  /\ gen.n = I32Min
  /\ Len(gen.t) > 0
  /\ result.kind = "Ok"

\* C5: in parse_dict, a token in key position that decodes as a variant other
\* than String makes the parse fail with InvalidFormat, whatever follows it.
NonStringKeyIsInvalidFormat ==
  (Done("parse_dict") /\ Len(stream) > 0 /\ stream[1] = ch_d) =>
    LET key == next_rule(Tail(stream))
    IN (key.kind = "Ok" /\ key.value.tag # "String") => IsErr(result, "InvalidFormat")

\* C6: parse_dict on 'd', (String key, value) pairs, 'e' returns a Dictionary
\* whose keys are the distinct keys of the input, each mapped to the value of
\* its last occurrence; a repeated key is no error.
DictLastKeyWins ==
  (Done("parse_dict") /\ gen.family = "dict" /\ WellFormed(gen)) =>
    LET ps == gen.pairs
        m == result.value.dict
        keys == {ps[j].key.str : j \in 1..Len(ps)}
        Last(k) == CHOOSE j \in 1..Len(ps) :
                     /\ ps[j].key.str = k
                     /\ \A h \in (j + 1)..Len(ps) : ps[h].key.str # k
    IN /\ result.kind = "Ok"
       /\ result.value.tag = "Dictionary"
       /\ result.next = gen.t
       /\ {m[j].key : j \in 1..Len(m)} = keys
       /\ Len(m) = Cardinality(keys)
       /\ \A j \in 1..Len(m) : m[j].val = ps[Last(m[j].key)].val

DictRepeatedKeyWitness ==
  /\ Done("parse_dict")
  /\ gen.family = "dict"
  /\ WellFormed(gen)
  /\ Len(gen.pairs) = 2
  /\ gen.pairs[1].key = gen.pairs[2].key
  /\ gen.pairs[1].val # gen.pairs[2].val
  /\ result.kind = "Ok"

\* C7: parse_list on 'l', m valid sub-tokens, 'e' returns the List of the m
\* decoded values in input order and everything after that 'e' as remainder.
ListKeepsOrder ==
  (Done("parse_list") /\ gen.family = "list") =>
    /\ result.kind = "Ok"
    /\ result.value.tag = "List"
    /\ Len(result.value.list) = Len(gen.vals)
    /\ \A j \in 1..Len(gen.vals) : result.value.list[j] = gen.vals[j]
    /\ result.next = gen.t

ListOrderWitness ==
  /\ Done("parse_list")
  /\ gen.family = "list"
  /\ Len(gen.vals) = 2
  /\ gen.vals[1] # gen.vals[2]
  /\ Len(gen.t) > 0
  /\ result.kind = "Ok"

\* C8: parse_int accepts only a numeral that is an optional '-' followed by
\* one or more decimal digits: a '+' sign and an empty numeral are rejected.
IntTokenGrammar ==
  (Done("parse_int") /\ result.kind = "Ok") =>
    IsNumeral(Slice(stream, 1, Position(stream, ch_e)))

\* C9: a string token with at least k bytes after its colon, one of the first
\* k of them not ASCII, makes parse_str fail with InvalidEncoding.
NonAsciiPayloadIsInvalidEncoding ==
  (/\ Done("parse_str")
   /\ gen.family = "str"
   /\ gen.k <= Len(gen.s) + Len(gen.t)
   /\ ~IsAscii(SubSeq(gen.s \o gen.t, 1, gen.k))) =>
    IsErr(result, "InvalidEncoding")

\* C10: a successful next_rule, parse_int, parse_str, parse_list or parse_dict
\* returns a proper suffix of its slice, and no call nests recursive calls
\* deeper than the length of its input.
ConsumesAndTerminates ==
  pc = "done" =>
    /\ (fn # "parse" /\ result.kind = "Ok") =>
         (Len(result.next) < Len(stream) /\ IsSuffix(result.next, stream))
    /\ result.depth <= Len(stream)

NestedConsumeWitness ==
  /\ Done("next_rule")
  /\ result.kind = "Ok"
  /\ result.depth >= 2
  /\ Len(result.next) > 0

====
